---- MODULE Spec2Model ----
(***************************************************************************)
(* A model of the TEDD1104 sample construction pipeline (src/dataset.py):  *)
(* the transform stages, the batch collator and the Tedd1104Dataset        *)
(* constructor and __getitem__.                                            *)
(*                                                                         *)
(* Conventions.                                                            *)
(*  - A probability p is held as the integer numerator of p / Den, and a   *)
(*    torch.rand(1) draw u in [0,1) as the numerator of u / DrawDen, on a  *)
(*    grid twice as fine, so that a draw can equal a probability and every *)
(*    probability below 1 has a draw above it.                             *)
(*  - An optional Python value is <<>> (None) or <<v>>.                    *)
(*  - An image tensor of shape (C,H,T) is held as the file it was decoded  *)
(*    from, the column offset of the view, and the set of rectangles that  *)
(*    were overwritten with zeros; At(img,ch,r,x) is the value of a pixel. *)
(*  - A stacked tensor (N,C,H,W) is [frames |-> the sequence of N frames]. *)
(*  - A label is [type, data]: the codec's list or a tensor of its values. *)
(*  - An operation that can raise returns [err |-> name, val |-> value],   *)
(*    err = "none" when it returns normally.                               *)
(***************************************************************************)
EXTENDS Integers, Sequences, FiniteSets, TLC

\* ------------------------------------------------------------- bounds
\* Resolution of probabilities (p = k / Den).
Den == 2

\* Resolution of the torch.rand draws (u = k / DrawDen, 0 <= u < 1).
DrawDen == 2 * Den

\* torch.rand(1)[0] <= p
DrawLe(u, p) == u * Den <= p * DrawDen
\* Largest number of files in the split directory.
MaxFiles == 2
\* Largest batch handed to collate_fn.
MaxBatch == 2

\* ---------------------------------------------------- program constants
\* Number of frames in one sequence image.
NumFrames == 5
\* First row of the minimap region.
MinimapTop == 215
\* Height and width of the zero block written over the minimap.
MinimapHeight == 55
MinimapWidth == 80
\* Channels of the zero block written over the minimap.
MinimapChannels == 3

Min(a, b) == IF a < b THEN a ELSE b
Max(a, b) == IF a > b THEN a ELSE b

Ok(v) == [err |-> "none", val |-> v]
Raise(e) == [err |-> e, val |-> <<>>]
\* An exception that leaves a call which writes into its argument in place:
\* val is the argument as the writes before the exception left it.
RaiseIn(e, v) == [err |-> e, val |-> v]

\* ------------------------------------------------------------ tensors
\* The decoded content of file k: the value of channel ch, row r, column x.
Orig(k, ch, r, x) == (17 * k + 5 * ch + 3 * r + x) % 256

\* The tensor read from file k with shape <<C,H,T>>.
Decoded(k, shape) ==
  [file |-> k, shape |-> shape, off |-> 0, zero |-> {}, ops |-> <<>>]

\* image.size(2)
Width(img) == img.shape[3]

\* The value of a pixel of an image (before the value transforms recorded
\* in ops, the color jitter and the normalization).
At(img, ch, r, x) ==
  IF \E z \in img.zero :
        /\ z[1] <= r /\ r < z[2]
        /\ z[3] <= x + img.off /\ x + img.off < z[4]
  THEN 0
  ELSE Orig(img.file, ch, r, x + img.off)

\* image[:, :, a:b] with Python's clipping of slice bounds.
SliceCols(img, a, b) ==
  LET lo == Min(a, Width(img))
      hi == Max(lo, Min(b, Width(img)))
  IN [img EXCEPT !.shape = <<img.shape[1], img.shape[2], hi - lo>>,
                 !.off = img.off + lo]

\* image[:, r0:, x0:x1] = torch.zeros(src): the assignment raises unless the
\* shape of the (clipped) target equals the shape of the zero block.
SetZeros(img, r0, x0, x1, src) ==
  LET rlo == Min(r0, img.shape[2])
      xlo == Min(x0, Width(img))
      xhi == Max(xlo, Min(x1, Width(img)))
      target == <<img.shape[1], img.shape[2] - rlo, xhi - xlo>>
  IN IF target # src
     THEN Raise("RuntimeError")
     ELSE Ok([img EXCEPT !.zero = @ \cup
                 {<<rlo, img.shape[2], xlo + img.off, xhi + img.off>>}])

\* A Python list of numbers, and torch.tensor(y) of one.
PyList(v) == [type |-> "list", data |-> v]
TorchTensor(y) == [type |-> "tensor", data |-> y.data]

\* torch.stack(tensors) of image tensors: raises unless all shapes are equal.
TorchStack(tensors) ==
  IF \E i, j \in 1..Len(tensors) : tensors[i].shape # tensors[j].shape
  THEN Raise("RuntimeError")
  ELSE Ok([frames |-> tensors])

RECURSIVE Flatten(_)
Flatten(seqs) ==
  IF seqs = <<>> THEN <<>> ELSE Head(seqs) \o Flatten(Tail(seqs))

\* torch.cat(stacks, dim=0) of stacked image tensors: raises on an empty list
\* and unless the frames of all stacks have one shape.
TorchCat(stacks) ==
  LET all == Flatten([i \in 1..Len(stacks) |-> stacks[i].frames])
  IN IF stacks = <<>> \/ \E i, j \in 1..Len(all) : all[i].shape # all[j].shape
     THEN Raise("RuntimeError")
     ELSE Ok([frames |-> all])

\* A tensor of booleans or numbers held by its shape and its entries in
\* row-major order.
Tensor(shape, data) == [shape |-> shape, data |-> data]

RECURSIVE SumDim0(_)
SumDim0(tensors) ==
  IF tensors = <<>> THEN 0 ELSE Head(tensors).shape[1] + SumDim0(Tail(tensors))

\* torch.cat skips the empty tensors of one dimension, of shape (0,).
IsEmpty1D(t) == t.shape = <<0>>

NotEmpty1D(t) == ~IsEmpty1D(t)

\* torch.cat(tensors, dim=0): raises on an empty list and on a tensor of no
\* dimension; the empty tensors of one dimension are skipped, and it raises
\* unless the others agree in every dimension but the first; the entries
\* follow each other in list order.
TorchCatDim0(tensors) ==
  LET kept == SelectSeq(tensors, NotEmpty1D)
  IN IF tensors = <<>> \/ \E i \in 1..Len(tensors) : tensors[i].shape = <<>>
     THEN Raise("RuntimeError")
     ELSE IF kept = <<>> THEN Ok(Tensor(<<0>>, <<>>))
     ELSE IF \E i, j \in 1..Len(kept) : Tail(kept[i].shape) # Tail(kept[j].shape)
     THEN Raise("RuntimeError")
     ELSE Ok(Tensor(<<SumDim0(kept)>> \o Tail(kept[1].shape),
                    Flatten([i \in 1..Len(kept) |-> kept[i].data])))

\* ------------------------------------------------------ RemoveMinimap
\* The slots are written into the caller's tensor in place, one after the
\* other: when the assignment of a slot raises, the slots before it stay
\* zeroed in that tensor.
RECURSIVE MinimapLoop(_, _, _)
MinimapLoop(image, width, j) ==
  IF j = NumFrames THEN Ok(image)
  ELSE LET r == SetZeros(image, MinimapTop, j * width, (j * width) + MinimapWidth,
                         <<MinimapChannels, MinimapHeight, MinimapWidth>>)
       IN IF r.err # "none" THEN RaiseIn(r.err, image)
          ELSE MinimapLoop(r.val, width, j + 1)

\* RemoveMinimap without the hide_map_prob > 0 test.
RemoveMinimapNoGuard(hide_map_prob, u, sample) ==
  LET width == Width(sample.image) \div 5
  IN IF DrawLe(u, hide_map_prob)
     THEN LET r == MinimapLoop(sample.image, width, 0)
          IN IF r.err # "none"
             THEN RaiseIn(r.err, [image |-> r.val, y |-> sample.y])
             ELSE Ok([image |-> r.val, y |-> sample.y])
     ELSE Ok(sample)

\* RemoveMinimap(hide_map_prob).__call__(sample); u is the torch.rand draw.
RemoveMinimap(hide_map_prob, u, sample) ==
  LET width == Width(sample.image) \div 5
  IN IF hide_map_prob > 0 /\ DrawLe(u, hide_map_prob)
     THEN LET r == MinimapLoop(sample.image, width, 0)
          IN IF r.err # "none"
             THEN RaiseIn(r.err, [image |-> r.val, y |-> sample.y])
             ELSE Ok([image |-> r.val, y |-> sample.y])
     ELSE Ok(sample)

\* -------------------------------------------------------- RemoveImage
\* dropout_images_prob[j] of an optional list: None is not subscriptable,
\* and a list shorter than j+1 has no entry j.
Subscript(opt, j) ==
  IF opt = <<>> THEN Raise("TypeError")
  ELSE IF j + 1 > Len(opt[1]) THEN Raise("IndexError")
  ELSE Ok(opt[1][j + 1])

RECURSIVE RemoveImageLoop(_, _, _, _, _)
RemoveImageLoop(dropout_images_prob, us, image, width, j) ==
  IF j = NumFrames THEN Ok(image)
  ELSE LET p == Subscript(dropout_images_prob, j)
       IN IF p.err # "none" THEN RaiseIn(p.err, image)
          ELSE IF p.val > 0 /\ DrawLe(us[j + 1], p.val)
          THEN LET r == SetZeros(image, 0, j * width, (j + 1) * width,
                                 <<image.shape[1], image.shape[2], width>>)
               IN IF r.err # "none" THEN RaiseIn(r.err, image)
                  ELSE RemoveImageLoop(dropout_images_prob, us, r.val, width, j + 1)
          ELSE RemoveImageLoop(dropout_images_prob, us, image, width, j + 1)

\* RemoveImage with one draw shared by the 5 slots.
RemoveImageSharedDraw(dropout_images_prob, us, sample) ==
  LET width == Width(sample.image) \div 5
      r == RemoveImageLoop(dropout_images_prob, [j \in 1..NumFrames |-> us[1]],
                           sample.image, width, 0)
  IN IF r.err # "none" THEN RaiseIn(r.err, [image |-> r.val, y |-> sample.y])
     ELSE Ok([image |-> r.val, y |-> sample.y])

\* RemoveImage(dropout_images_prob).__call__(sample); us[j+1] is the
\* torch.rand draw of slot j.
RemoveImage(dropout_images_prob, us, sample) ==
  LET width == Width(sample.image) \div 5
      r == RemoveImageLoop(dropout_images_prob, us, sample.image, width, 0)
  IN IF r.err # "none" THEN RaiseIn(r.err, [image |-> r.val, y |-> sample.y])
     ELSE Ok([image |-> r.val, y |-> sample.y])

\* -------------------------------------------------------- SplitImages
\* SplitImages with the last frame running to the end of the image.
SplitImagesKeepTail(sample) ==
  LET image == sample.image
      width == Width(image) \div 5
      r == TorchStack(<<SliceCols(image, 0, width),
                        SliceCols(image, width, width * 2),
                        SliceCols(image, width * 2, width * 3),
                        SliceCols(image, width * 3, width * 4),
                        SliceCols(image, width * 4, Width(image))>>)
  IN IF r.err # "none" THEN r
     ELSE Ok([image |-> r.val, y |-> TorchTensor(sample.y)])

\* SplitImages.__call__(sample)
SplitImages(sample) ==
  LET image == sample.image
      width == Width(image) \div 5
      image1 == SliceCols(image, 0, width)
      image2 == SliceCols(image, width, width * 2)
      image3 == SliceCols(image, width * 2, width * 3)
      image4 == SliceCols(image, width * 3, width * 4)
      image5 == SliceCols(image, width * 4, width * 5)
      r == TorchStack(<<image1, image2, image3, image4, image5>>)
  IN IF r.err # "none" THEN r
     ELSE Ok([image |-> r.val, y |-> TorchTensor(sample.y)])

\* ------------------------------------------------ SequenceColorJitter
\* transforms.ColorJitter draws one perturbation k and applies it to the
\* whole stack.
SequenceColorJitter(k, sample) ==
  Ok([image |-> [frames |-> [i \in 1..Len(sample.image.frames) |->
                  [sample.image.frames[i] EXCEPT !.ops = Append(@, <<"jitter", k>>)]]],
      y |-> sample.y])

\* ---------------------------------------------------------- Normalize
Mean == <<485, 456, 406>>
Std == <<229, 224, 225>>

\* (v / 255 - mean) / std of channel ch (0-based), as the exact fraction
\* <<numerator, denominator>> with mean and std in thousandths.
NormalizeValue(v, ch) == <<1000 * v - 255 * Mean[ch + 1], 255 * Std[ch + 1]>>

\* self.transform(images[i] / 255.0): images[i] raises on a stack of fewer
\* than i+1 frames; transforms.Normalize subtracts the 3 means in place and
\* raises unless the frame has 3 channels; otherwise every value v of
\* channel ch of the frame becomes NormalizeValue(v, ch), and the frame
\* records that it was normalized.
NormalizeFrame(images, i) ==
  IF i + 1 > Len(images) THEN Raise("IndexError")
  ELSE IF images[i + 1].shape[1] # Len(Mean) THEN Raise("RuntimeError")
  ELSE Ok([images[i + 1] EXCEPT !.ops = Append(@, <<"normalize">>)])

\* The elements of the list Normalize.__call__ stacks, evaluated in order
\* from images[i] on.
RECURSIVE NormalizeFrames(_, _)
NormalizeFrames(images, i) ==
  IF i = NumFrames THEN Ok(<<>>)
  ELSE LET r == NormalizeFrame(images, i)
       IN IF r.err # "none" THEN r
          ELSE LET rest == NormalizeFrames(images, i + 1)
               IN IF rest.err # "none" THEN rest
                  ELSE Ok(<<r.val>> \o rest.val)

\* Normalize.__call__(sample): images[0] .. images[4], stacked.
Normalize(sample) ==
  LET frames == NormalizeFrames(sample.image.frames, 0)
  IN IF frames.err # "none" THEN frames
     ELSE LET r == TorchStack(frames.val)
          IN IF r.err # "none" THEN r
             ELSE Ok([image |-> r.val, y |-> sample.y])

\* --------------------------------------------------------- collate_fn
\* torch.stack of the label tensors: raises unless all have one shape.
StackLabels(ys) ==
  IF ys = <<>> \/ \E i, j \in 1..Len(ys) : Len(ys[i].data) # Len(ys[j].data)
  THEN Raise("RuntimeError")
  ELSE Ok([type |-> "tensor", data |-> [i \in 1..Len(ys) |-> ys[i].data]])

\* collate_fn with the frame stacks stacked along a new axis instead of
\* concatenated.
collate_fn_StackImages(batch) ==
  LET images == TorchCat([i \in 1..Len(batch) |-> batch[i][1]])
      masks == TorchCatDim0([i \in 1..Len(batch) |-> batch[i][2]])
      y == StackLabels([i \in 1..Len(batch) |-> batch[i][3]])
  IN IF images.err # "none" THEN images
     ELSE IF masks.err # "none" THEN masks
     ELSE IF y.err # "none" THEN y
     ELSE Ok([images |-> [frames |-> [i \in 1..Len(batch) |-> batch[i][1]]],
              attention_mask |-> masks.val, y |-> y.val])

\* collate_fn(batch): a sample b is <<frames, mask, label>>.
collate_fn(batch) ==
  LET images == TorchCat([i \in 1..Len(batch) |-> batch[i][1]])
      masks == TorchCatDim0([i \in 1..Len(batch) |-> batch[i][2]])
      y == StackLabels([i \in 1..Len(batch) |-> batch[i][3]])
  IN IF images.err # "none" THEN images
     ELSE IF masks.err # "none" THEN masks
     ELSE IF y.err # "none" THEN y
     ELSE Ok([images |-> images.val, attention_mask |-> masks.val, y |-> y.val])

\* ----------------------------------------------------------- get_mask
\* utils.get_mask(train, nheads, mask_prob, sequence_length): full
\* visibility for a recurrent consumer, outside training and for
\* mask_prob = 0; otherwise position i is masked when its Bernoulli draw
\* with probability mask_prob, bern[i], comes out true.  TRUE marks a
\* masked position; the mask is a tensor with one entry per position.
get_mask(train, nheads, mask_prob, sequence_length, bern) ==
  IF nheads = <<>> \/ ~train \/ mask_prob = 0
  THEN Tensor(<<sequence_length>>, [i \in 1..sequence_length |-> FALSE])
  ELSE Tensor(<<sequence_length>>, [i \in 1..sequence_length |-> bern[i]])

\* IOHandler.imagename_input_conversion(image_name, output_type): the label
\* the file name encodes, for the control mode.
imagename_input_conversion(image_name, output_type) ==
  IF output_type = "keyboard" THEN PyList(<<image_name>>)
  ELSE PyList(<<image_name, 0 - image_name>>)

\* ------------------------------------------------- Tedd1104Dataset
\* str.lower() on the control modes the model passes.
Lower(s) ==
  CASE s = "Keyboard" -> "keyboard"
    [] s = "CONTROLLER" -> "controller"
    [] OTHER -> s

\* Python truthiness of an optional list: None and [] are falsy.
Truthy(opt) == opt # <<>> /\ opt[1] # <<>>

\* [0.0] * sequence_length
Zeros(n) == [i \in 1..n |-> 0]

\* __init__ with the color jitter left in the evaluation pipeline.
ComposeTransformEvalJitter(train, hide_map_prob, dropout_images_prob) ==
  IF train
  THEN << [name |-> "RemoveMinimap", arg |-> <<hide_map_prob>>],
          [name |-> "RemoveImage", arg |-> dropout_images_prob],
          [name |-> "SplitImages", arg |-> <<>>],
          [name |-> "SequenceColorJitter", arg |-> <<>>],
          [name |-> "Normalize", arg |-> <<>>] >>
  ELSE << [name |-> "SplitImages", arg |-> <<>>],
          [name |-> "SequenceColorJitter", arg |-> <<>>],
          [name |-> "Normalize", arg |-> <<>>] >>

\* The transforms.Compose list built by __init__.  The stages receive the
\* constructor's arguments hide_map_prob and dropout_images_prob.
ComposeTransform(train, hide_map_prob, dropout_images_prob) ==
  IF train
  THEN << [name |-> "RemoveMinimap", arg |-> <<hide_map_prob>>],
          [name |-> "RemoveImage", arg |-> dropout_images_prob],
          [name |-> "SplitImages", arg |-> <<>>],
          [name |-> "SequenceColorJitter", arg |-> <<>>],
          [name |-> "Normalize", arg |-> <<>>] >>
  ELSE << [name |-> "SplitImages", arg |-> <<>>],
          [name |-> "Normalize", arg |-> <<>>] >>

\* Tedd1104Dataset.__init__(...): a holds the arguments, listing is what
\* glob returns for dataset_dir.
Tedd1104Dataset_init(a, listing) ==
  LET dropout == IF Truthy(a.dropout_images_prob)
                 THEN a.dropout_images_prob[1]
                 ELSE Zeros(a.sequence_length)
      control_mode == Lower(a.control_mode)
  IN IF control_mode \notin {"keyboard", "controller"}
     THEN Raise("AssertionError")
     ELSE IF ~(0 <= a.hide_map_prob /\ a.hide_map_prob <= Den)
     THEN Raise("AssertionError")
     ELSE IF Len(dropout) # 5
     THEN \* the assertion message takes len() of the argument
          IF a.dropout_images_prob = <<>> THEN Raise("TypeError")
          ELSE Raise("AssertionError")
     ELSE IF \E i \in 1..Len(dropout) : ~(0 <= dropout[i] /\ dropout[i] < Den)
     THEN Raise("AssertionError")
     ELSE IF ~(0 <= a.token_mask_prob /\ a.token_mask_prob < Den)
     THEN Raise("AssertionError")
     ELSE Ok([hide_map_prob |-> a.hide_map_prob,
              dropout_images_prob |-> dropout,
              control_mode |-> control_mode,
              sequence_length |-> a.sequence_length,
              token_mask_prob |-> a.token_mask_prob,
              transformer_nheads |-> a.transformer_nheads,
              train |-> a.train,
              transform |-> ComposeTransform(a.train, a.hide_map_prob,
                                             a.dropout_images_prob),
              dataset_files |-> listing])

\* ------------------------------------------------------------- inputs
Draws == 0..(DrawDen - 1)

\* What torchvision.io.read_image does with a file: it returns the decoded
\* tensor or raises.
ReadOutcomes == {"ok", "ValueError", "FileNotFoundError", "RuntimeError"}

\* The split directories: file names are 1..n, each with its read outcome.
Dirs == UNION {[1..n -> ReadOutcomes] : n \in 1..MaxFiles}

\* The shape of the image in file k.
ShapeOf(k) == IF k = 1 THEN <<3, 270, 402>> ELSE <<3, 2, 5 * k + 1>>

ControlModes == {"keyboard", "controller", "Keyboard", "CONTROLLER", "mouse"}
HideProbs == {0 - 1, 0, Den \div 2, Den, Den + 1}
TokenProbs == {0 - 1, 0, Den \div 2, Den}
DropoutArgs ==
  { <<>>, << <<>> >>, <<Zeros(5)>>, <<Zeros(4)>>, <<Zeros(6)>>,
    << <<0, Den \div 2, 0, 0, Den - 1>> >>,
    << <<0, 0, Den, 0, 0>> >>,
    << <<0 - 1, 0, 0, 0, 0>> >> }
SequenceLengths == {3, 5}
Heads == {<<>>, <<2>>}

Args(modes, hides, tokens, heads, dropouts, lengths, trains) ==
  [control_mode : modes, hide_map_prob : hides, token_mask_prob : tokens,
   transformer_nheads : heads, dropout_images_prob : dropouts,
   sequence_length : lengths, train : trains]

\* Constructor arguments, valid and invalid in every parameter.
AllArgs ==
  Args(ControlModes, HideProbs, TokenProbs, Heads, DropoutArgs,
       SequenceLengths, BOOLEAN)

\* Constructor arguments of the builders that serve samples.
ServingArgs ==
  Args({"keyboard", "CONTROLLER", "mouse"}, {0, Den \div 2, Den}, {0, Den \div 2},
       {<<2>>},
       {<<>>, << <<>> >>, <<Zeros(5)>>, << <<0, Den \div 2, 0, 0, Den - 1>> >>},
       SequenceLengths, BOOLEAN)

\* ------------------------------------------------------------- state
VARIABLES
  disk,      \* the split directory: file name -> read outcome
  args,      \* <<>> or <<the constructor's arguments>>
  ds,        \* <<>> or <<the constructed Tedd1104Dataset>>
  pc,        \* position: new, failed, idle, read, label, transform, mask,
             \*           returned, raised (off: no dataset in play)
  err,       \* the exception raised by the constructor or by __getitem__
  idx,       \* the index __getitem__ was called with
  img_name,  \* __getitem__'s img_name
  warned,    \* the "Error reading image" warning was printed in this call
  sample,    \* <<>> or <<[image, y]>>: the pair run through the transform
  stage,     \* index of the next stage of self.transform
  ran,       \* the stages (and get_mask) executed in this call, in order
  ret,       \* <<>> or <<the returned (image, mask, y)>>
  fn,        \* the function applied on its own (none in the dataset runs)
  arg,       \* its arguments
  out        \* <<>> or <<its result>>

vars == <<disk, args, ds, pc, err, idx, img_name, warned, sample, stage, ran,
          ret, fn, arg, out>>

callVars == <<idx, img_name, warned, sample, stage, ran, ret>>
pureVars == <<fn, arg, out>>

Init ==
  /\ disk \in Dirs
  /\ args = <<>> /\ ds = <<>> /\ pc = "new" /\ err = "none"
  /\ idx = 0 /\ img_name = 0 /\ warned = FALSE /\ sample = <<>>
  /\ stage = 0 /\ ran = <<>> /\ ret = <<>>
  /\ fn = "none" /\ arg = <<>> /\ out = <<>>

\* glob.glob(os.path.join(dataset_dir, "*.jpeg"))
Glob(d) == [i \in 1..Len(d) |-> i]

\* dataset = Tedd1104Dataset(**a)
Construct(a) ==
  /\ pc = "new"
  /\ LET r == Tedd1104Dataset_init(a, Glob(disk))
     IN /\ args' = <<a>>
        /\ err' = r.err
        /\ IF r.err = "none"
           THEN ds' = <<r.val>> /\ pc' = "idle"
           ELSE ds' = <<>> /\ pc' = "failed"
  /\ UNCHANGED <<disk, callVars, pureVars>>

\* torchvision.io.read_image(img_name)
read_image(d, name) ==
  IF d[name] = "ok" THEN Ok(Decoded(name, ShapeOf(name))) ELSE Raise(d[name])

\* The exceptions the except clause of __getitem__ catches.
Caught == {"ValueError", "FileNotFoundError"}

\* dataset[i]: img_name = self.dataset_files[idx]; image = None
GetItem(i) ==
  /\ pc \in {"idle", "returned", "raised"}
  /\ i \in 0..(Len(ds[1].dataset_files) - 1)
  /\ idx' = i
  /\ img_name' = ds[1].dataset_files[i + 1]
  /\ warned' = FALSE /\ sample' = <<>> /\ stage' = 0 /\ ran' = <<>> /\ ret' = <<>>
  /\ err' = "none"
  /\ pc' = "read"
  /\ UNCHANGED <<disk, args, ds, pureVars>>

\* The label decoded from the file the index names.
LabelNameIndexed(dataset_files, i, name) == dataset_files[i + 1]

\* The image_name handed to the label codec: the img_name the loop ended on.
LabelName(dataset_files, i, name) == name

\* One pass of the while loop in which read_image returns; then the label
\* is decoded from img_name.
ReadOk ==
  /\ pc = "read"
  /\ LET r == read_image(disk, img_name)
     IN /\ r.err = "none"
        /\ sample' = <<[image |-> r.val,
                        y |-> imagename_input_conversion(
                                LabelName(ds[1].dataset_files, idx, img_name),
                                ds[1].control_mode)]>>
  /\ stage' = 1
  /\ pc' = "transform"
  /\ UNCHANGED <<disk, args, ds, err, idx, img_name, warned, ran, ret, pureVars>>

\* int(len(self.dataset_files) * torch.rand(1))
RandomIndex(n, u) == (n * u) \div DrawDen

\* One pass of the while loop in which read_image raises a caught
\* exception: the warning is printed and a random file is substituted.
ReadRetry(u) ==
  /\ pc = "read"
  /\ read_image(disk, img_name).err \in Caught
  /\ warned' = TRUE
  /\ img_name' = ds[1].dataset_files[RandomIndex(Len(ds[1].dataset_files), u) + 1]
  /\ UNCHANGED <<disk, args, ds, pc, err, idx, sample, stage, ran, ret, pureVars>>

\* One pass of the while loop in which read_image raises an exception the
\* except clause does not name: it leaves __getitem__.
ReadRaise ==
  /\ pc = "read"
  /\ LET r == read_image(disk, img_name)
     IN /\ r.err \notin Caught \cup {"none"}
        /\ err' = r.err
  /\ pc' = "raised"
  /\ UNCHANGED <<disk, args, ds, idx, img_name, warned, sample, stage, ran, ret,
                 pureVars>>

\* The end of a stage of transforms.Compose: an exception leaves
\* __getitem__, a result is handed to the next stage.
EndStage(r) ==
  /\ ran' = Append(ran, ds[1].transform[stage].name)
  /\ IF r.err # "none"
     THEN /\ pc' = "raised" /\ err' = r.err
          /\ UNCHANGED <<sample, stage>>
     ELSE /\ sample' = <<r.val>>
          /\ stage' = stage + 1
          /\ pc' = IF stage = Len(ds[1].transform) THEN "mask" ELSE "transform"
          /\ UNCHANGED err
  /\ UNCHANGED <<disk, args, ds, idx, img_name, warned, ret, pureVars>>

AtStage(name) ==
  /\ pc = "transform"
  /\ stage <= Len(ds[1].transform)
  /\ ds[1].transform[stage].name = name

\* The draws RemoveImage makes: one for each slot whose probability is > 0.
DropDraws(opt) ==
  {us \in [1..NumFrames -> Draws] :
     \A j \in 1..NumFrames :
        (opt = <<>> \/ j > Len(opt[1]) \/ opt[1][j] <= 0) => us[j] = 0}

StageRemoveMinimap ==
  /\ AtStage("RemoveMinimap")
  /\ \E u \in Draws :
        EndStage(RemoveMinimap(ds[1].transform[stage].arg[1], u, sample[1]))

StageRemoveImage ==
  /\ AtStage("RemoveImage")
  /\ \E us \in DropDraws(ds[1].transform[stage].arg) :
        EndStage(RemoveImage(ds[1].transform[stage].arg, us, sample[1]))

StageSplitImages ==
  /\ AtStage("SplitImages")
  /\ EndStage(SplitImages(sample[1]))

JitterDraws == {1, 2}

StageSequenceColorJitter ==
  /\ AtStage("SequenceColorJitter")
  /\ \E k \in JitterDraws : EndStage(SequenceColorJitter(k, sample[1]))

StageNormalize ==
  /\ AtStage("Normalize")
  /\ EndStage(Normalize(sample[1]))

\* The draws get_mask makes: one per position, when it masks at all.
MaskDraws(d) ==
  IF d.transformer_nheads = <<>> \/ ~d.train \/ d.token_mask_prob = 0
  THEN {[i \in 1..d.sequence_length |-> FALSE]}
  ELSE [1..d.sequence_length -> BOOLEAN]

\* mask = get_mask(...); return image, mask, y
MaskAndReturn ==
  /\ pc = "mask"
  /\ ran' = Append(ran, "get_mask")
  /\ \E bern \in MaskDraws(ds[1]) :
        ret' = << <<sample[1].image,
                   get_mask(ds[1].train, ds[1].transformer_nheads,
                            ds[1].token_mask_prob, ds[1].sequence_length, bern),
                   sample[1].y>> >>
  /\ pc' = "returned"
  /\ UNCHANGED <<disk, args, ds, err, idx, img_name, warned, sample, stage, pureVars>>

GetSampleStep ==
  \/ ReadOk
  \/ \E u \in Draws : ReadRetry(u)
  \/ ReadRaise
  \/ StageRemoveMinimap
  \/ StageRemoveImage
  \/ StageSplitImages
  \/ StageSequenceColorJitter
  \/ StageNormalize
  \/ MaskAndReturn

Next ==
  \/ \E a \in ServingArgs : Construct(a)
  \/ \E i \in 0..(MaxFiles - 1) : GetItem(i)
  \/ GetSampleStep

Spec == Init /\ [][Next]_vars

\* The scheduling of the retry loop: a read that succeeds is completed, and
\* the random choice is fair, so that every file of the list that can be
\* substituted is substituted in the end.
FairSpec ==
  /\ Spec
  /\ WF_vars(ReadOk)
  /\ \A k \in 1..MaxFiles : WF_vars(\E u \in Draws : ReadRetry(u) /\ img_name' = k)

\* ------------------------------------------- the constructor on its own
InitOneDir ==
  /\ Init
  /\ disk = [i \in 1..MaxFiles |-> "ok"]

NextInit == \E a \in AllArgs : Construct(a)

SpecInit == InitOneDir /\ [][NextInit]_vars

\* ------------------------------------- the transforms on their own
\* Shapes without and with room for the minimap block.
SmallShapes == {<<3, 2, 0>>, <<3, 2, 4>>, <<3, 2, 5>>, <<3, 2, 11>>, <<1, 3, 10>>}
MapShapes ==
  {<<3, 270, 400>>, <<3, 270, 403>>, <<3, 270, 384>>, <<3, 270, 390>>,
   <<3, 271, 400>>, <<1, 270, 400>>}

SmallImages == {Decoded(k, sh) : k \in 1..2, sh \in SmallShapes}
MapImages == {Decoded(1, sh) : sh \in MapShapes}

TestLabels == {PyList(<<1>>), PyList(<<2>>), PyList(<<2, 0 - 2>>)}

DropoutVectors ==
  [1..NumFrames -> {0, Den \div 2}] \cup {[j \in 1..NumFrames |-> Den - 1]}

\* Samples as __getitem__ returns them: five frames, a mask, a label.
TestFrames ==
  {[frames |-> [j \in 1..NumFrames |->
      SliceCols(Decoded(k, sh), (j - 1) * (sh[3] \div 5), j * (sh[3] \div 5))]] :
     k \in 1..2, sh \in {<<3, 2, 5>>, <<3, 2, 11>>}}
\* The masks collate_fn is handed: tensors of one dimension (empty and of
\* two lengths, two of them of one length with different entries) and of
\* two dimensions.
TestMasks ==
  {Tensor(<<0>>, <<>>),
   Tensor(<<2>>, <<TRUE, FALSE>>), Tensor(<<2>>, <<FALSE, TRUE>>),
   Tensor(<<3>>, <<FALSE, FALSE, FALSE>>), Tensor(<<1, 2>>, <<TRUE, TRUE>>)}

\* The stacks Normalize is handed: five frames of 3 channels or of 1.
NormalizeStacks ==
  {[frames |-> [j \in 1..NumFrames |->
      SliceCols(Decoded(1, sh), (j - 1) * (sh[3] \div 5), j * (sh[3] \div 5))]] :
     sh \in {<<3, 2, 5>>, <<3, 2, 11>>, <<1, 3, 10>>}}
TestSamples ==
  {<<f, m, TorchTensor(y)>> : f \in TestFrames, m \in TestMasks, y \in TestLabels}
Batches == UNION {[1..n -> TestSamples] : n \in 1..MaxBatch}

InitT ==
  /\ disk = <<>> /\ args = <<>> /\ ds = <<>> /\ pc = "off" /\ err = "none"
  /\ idx = 0 /\ img_name = 0 /\ warned = FALSE /\ sample = <<>>
  /\ stage = 0 /\ ran = <<>> /\ ret = <<>>
  /\ out = <<>>
  /\ \/ /\ fn = "SplitImages"
        /\ arg \in [image : SmallImages, y : TestLabels]
     \/ /\ fn = "RemoveMinimap"
        /\ arg \in [hide_map_prob : {0, Den \div 2, Den},
                     image : MapImages \cup {Decoded(2, <<3, 2, 11>>)},
                     y : {PyList(<<1>>)}]
     \/ /\ fn = "RemoveImage"
        /\ arg \in [dropout_images_prob : DropoutVectors,
                     image : {Decoded(2, sh) : sh \in SmallShapes},
                     y : {PyList(<<1>>)}]
     \/ /\ fn = "Normalize"
        /\ arg \in [image : NormalizeStacks, y : {TorchTensor(y) : y \in TestLabels}]
     \/ /\ fn = "collate_fn"
        /\ arg \in [batch : Batches]

Called(f) == pc = "off" /\ fn = f /\ out = <<>>

\* A call ends: res is what it returned or raised (with the tensor it wrote
\* in place, as the call left it), arg stays the arguments as passed.
Returned(r, draws) ==
  /\ out' = <<[res |-> r, draws |-> draws]>>
  /\ UNCHANGED <<disk, args, ds, pc, err, callVars, fn, arg>>

CallSplitImages ==
  /\ Called("SplitImages")
  /\ Returned(SplitImages([image |-> arg.image, y |-> arg.y]), <<>>)

CallRemoveMinimap ==
  /\ Called("RemoveMinimap")
  /\ \E u \in Draws :
        Returned(RemoveMinimap(arg.hide_map_prob, u,
                               [image |-> arg.image, y |-> arg.y]), <<>>)

CallRemoveImage ==
  /\ Called("RemoveImage")
  /\ \E us \in DropDraws(<<arg.dropout_images_prob>>) :
        Returned(RemoveImage(<<arg.dropout_images_prob>>, us,
                             [image |-> arg.image, y |-> arg.y]), us)

CallNormalize ==
  /\ Called("Normalize")
  /\ Returned(Normalize([image |-> arg.image, y |-> arg.y]), <<>>)

CallCollate ==
  /\ Called("collate_fn")
  /\ Returned(collate_fn(arg.batch), <<>>)

NextT ==
  \/ CallSplitImages \/ CallRemoveMinimap \/ CallRemoveImage
  \/ CallNormalize \/ CallCollate

SpecT == InitT /\ [][NextT]_vars

\* ====================================================== properties
Chans(img) == 0..(img.shape[1] - 1)
Rows(img) == 0..(img.shape[2] - 1)
Cols(img) == 0..(img.shape[3] - 1)

SamePixels(a, b) ==
  /\ a.shape = b.shape
  /\ \A ch \in Chans(a), r \in Rows(a), x \in Cols(a) :
        At(a, ch, r, x) = At(b, ch, r, x)

Done(f) == pc = "off" /\ fn = f /\ out # <<>>

\* C5: for every image of width T, SplitImages returns exactly 5 frames in
\* left-to-right order, each of width W = floor(T/5); frame j holds columns
\* j*W .. j*W+W-1 of the image, so the frames side by side are the image
\* cropped to its first 5W columns; columns from 5W on are dropped without
\* error, and the label keeps its value.
C5_FrameSplitter ==
  Done("SplitImages") =>
    LET image == arg.image
        T == image.shape[3]
        r == out[1].res
    IN /\ r.err = "none"
       /\ Len(r.val.image.frames) = 5
       /\ r.val.y.data = arg.y.data
       /\ \E W \in 0..T :
            /\ 5 * W <= T /\ T < 5 * W + 5
            /\ \A j \in 0..4 :
                 LET frame == r.val.image.frames[j + 1]
                 IN /\ frame.shape = <<image.shape[1], image.shape[2], W>>
                    /\ \A ch \in Chans(frame), row \in Rows(frame), x \in Cols(frame) :
                         At(frame, ch, row, x) = At(image, ch, row, j * W + x)

\* A split of an image whose width is not a multiple of 5 and whose frames
\* are not empty.
C5_Witness ==
  /\ Done("SplitImages")
  /\ out[1].res.err = "none"
  /\ arg.image.shape[3] = 11
  /\ out[1].res.val.image.frames[5].shape[3] = 2

\* The frames of a batch have one shape and its labels have one shape.
UniformFramesAndLabels(batch) ==
  \A i, j \in 1..Len(batch) :
    /\ Len(batch[i][3].data) = Len(batch[j][3].data)
    /\ \A k \in 1..Len(batch[i][1].frames), l \in 1..Len(batch[j][1].frames) :
         batch[i][1].frames[k].shape = batch[j][1].frames[l].shape

\* The masks of a batch, the empty ones of one dimension apart, agree in
\* every dimension but the first.
MasksAgree(batch) ==
  \A i, j \in 1..Len(batch) :
    \/ IsEmpty1D(batch[i][2]) \/ IsEmpty1D(batch[j][2])
    \/ Tail(batch[i][2].shape) = Tail(batch[j][2].shape)

\* The dimensions after the first of the concatenated masks of a batch.
MaskTail(batch) ==
  IF \A i \in 1..Len(batch) : IsEmpty1D(batch[i][2]) THEN <<>>
  ELSE LET i == CHOOSE i \in 1..Len(batch) : ~IsEmpty1D(batch[i][2])
       IN Tail(batch[i][2].shape)

\* The number of mask entries of the samples before sample i.
RECURSIVE MaskOffset(_, _)
MaskOffset(batch, i) ==
  IF i = 1 THEN 0 ELSE MaskOffset(batch, i - 1) + Len(batch[i - 1][2].data)

\* The leading dimensions of the masks of the samples up to sample i, summed.
RECURSIVE MaskRows(_, _)
MaskRows(batch, i) ==
  IF i = 0 THEN 0 ELSE MaskRows(batch, i - 1) + batch[i][2].shape[1]

\* The batch layout: the frames of sample i at positions 5i .. 5i+4 in their
\* order, the masks one after the other in sample order, label i at entry i.
Layout(batch, b) ==
  LET N == Len(batch)
  IN /\ Len(b.images.frames) = 5 * N
     /\ \A i \in 1..N, k \in 1..5 :
          b.images.frames[5 * (i - 1) + k] = batch[i][1].frames[k]
     /\ b.attention_mask.shape = <<MaskRows(batch, N)>> \o MaskTail(batch)
     /\ Len(b.attention_mask.data) = MaskOffset(batch, N + 1)
     /\ \A i \in 1..N : \A m \in 1..Len(batch[i][2].data) :
          b.attention_mask.data[MaskOffset(batch, i) + m] = batch[i][2].data[m]
     /\ Len(b.y.data) = N
     /\ \A i \in 1..N : b.y.data[i] = batch[i][3].data

\* C6 as amended: given N >= 1 samples of 5 frames each whose frames have
\* one shape, whose labels have one shape and whose masks, the empty ones
\* of one dimension apart, agree in every dimension but the first,
\* collate_fn yields the batch layout (5N frames with sample i at
\* 5i..5i+4, the masks concatenated in sample order, the label of sample i
\* at entry i of N); given any other samples it raises.
C6_Collate ==
  Done("collate_fn") =>
    LET batch == arg.batch
        r == out[1].res
    IN IF UniformFramesAndLabels(batch) /\ MasksAgree(batch)
       THEN r.err = "none" /\ Layout(batch, r.val)
       ELSE r.err # "none"

\* C6 with the precondition on the frames and the labels alone: samples
\* whose frames have one shape and whose labels have one shape are
\* collated, whatever their masks.
CollatesWhateverTheMasks ==
  Done("collate_fn") /\ UniformFramesAndLabels(arg.batch) =>
    out[1].res.err = "none"

\* C6 as stated: collate_fn yields the batch layout for any list of N >= 1
\* samples of 5 frames each.
C6_Original ==
  Done("collate_fn") =>
    /\ out[1].res.err = "none"
    /\ Layout(arg.batch, out[1].res.val)

\* A batch of two samples that differ in their frames, in the entries of
\* their masks (of one shape) and in their labels was collated: the second
\* sample's frames, mask entries and label follow the first's.
C6_Witness ==
  /\ Done("collate_fn")
  /\ out[1].res.err = "none"
  /\ Len(arg.batch) = 2
  /\ arg.batch[1][1].frames[1].file # arg.batch[2][1].frames[1].file
  /\ arg.batch[1][2].shape = arg.batch[2][2].shape
  /\ arg.batch[1][2].data # arg.batch[2][2].data
  /\ arg.batch[1][3].data # arg.batch[2][3].data
  /\ Len(out[1].res.val.images.frames) = 10
  /\ out[1].res.val.images.frames[6] = arg.batch[2][1].frames[1]
  /\ out[1].res.val.attention_mask.data[1] # out[1].res.val.attention_mask.data[3]
  /\ out[1].res.val.y.data[1] # out[1].res.val.y.data[2]

\* The width of one of the 5 segments of an image: floor(T/5).
SegWidth(shape) == shape[3] \div 5

\* The minimap block fits an image of 3 channels and 270 rows in which the
\* 80 columns from the start of the last segment exist.
Fits(shape) ==
  /\ shape[1] = 3 /\ shape[2] = 270
  /\ 4 * SegWidth(shape) + 80 <= shape[3]

\* Pixel (row, x) lies in the minimap region of one of the 5 segments.
InMinimap(shape, row, x) ==
  /\ row >= 215
  /\ \E j \in 0..4 : j * SegWidth(shape) <= x /\ x < j * SegWidth(shape) + 80

MinimapZeroed(image) ==
  \A j \in 0..4 :
    \A x \in (j * SegWidth(image.shape))..(j * SegWidth(image.shape) + 79) :
      \A row \in 215..(image.shape[2] - 1), ch \in Chans(image) :
        x \in Cols(image) => At(image, ch, row, x) = 0

\* C7 as amended: with hide_map_prob = 0 the image is returned unaltered;
\* with hide_map_prob = 1 the region (rows 215.., columns j*W .. j*W+79 of
\* each segment j) is zeroed for every image the block fits (3 channels,
\* 270 rows, 4W + 80 <= T) and the call raises for every other image;
\* whenever it returns, either nothing changed or all 5 regions are zero;
\* whether it returns or raises, no pixel outside the regions changed in
\* the image it was given.
C7_MinimapRemover ==
  Done("RemoveMinimap") =>
    LET image == arg.image
        r == out[1].res
    IN /\ arg.hide_map_prob = 0 => r.err = "none" /\ SamePixels(r.val.image, image)
       /\ arg.hide_map_prob = Den =>
            IF Fits(image.shape)
            THEN r.err = "none" /\ MinimapZeroed(r.val.image)
            ELSE r.err # "none"
       /\ r.err = "none" =>
            SamePixels(r.val.image, image) \/ MinimapZeroed(r.val.image)
       /\ /\ r.val.image.shape = image.shape
          /\ \A ch \in Chans(image), row \in Rows(image), x \in Cols(image) :
                 \/ InMinimap(image.shape, row, x)
                 \/ At(r.val.image, ch, row, x) = At(image, ch, row, x)

\* C7 as stated: with hide_map_prob = 1 the region is zeroed for any input
\* image.
C7_Original ==
  Done("RemoveMinimap") /\ arg.hide_map_prob = Den =>
    /\ out[1].res.err = "none"
    /\ MinimapZeroed(out[1].res.val.image)

\* With hide_map_prob = 1 a nonzero pixel of the last region was zeroed in
\* an image whose width is not a multiple of 5.
C7_Witness ==
  /\ Done("RemoveMinimap")
  /\ arg.hide_map_prob = Den
  /\ arg.image.shape = <<3, 270, 403>>
  /\ out[1].res.err = "none"
  /\ At(arg.image, 0, 269, 399) # 0
  /\ At(out[1].res.val.image, 0, 269, 399) = 0

\* Slot j (0-based) of a Frame Dropper call triggers: its probability is
\* > 0 and its draw is at most the probability.
Triggers(j) ==
  /\ arg.dropout_images_prob[j + 1] > 0
  /\ DrawLe(out[1].draws[j + 1], arg.dropout_images_prob[j + 1])

\* C8: RemoveImage returns an image in which the columns [j*W, (j+1)*W) of
\* every slot j that triggers are zero and every other pixel is unchanged;
\* a slot's segment depends on that slot's draw alone, and with the
\* all-zero vector nothing is altered.
C8_FrameDropper ==
  Done("RemoveImage") =>
    LET image == arg.image
        r == out[1].res
    IN /\ r.err = "none"
       /\ r.val.image.shape = image.shape
       /\ r.val.y = arg.y
       /\ \E W \in 0..image.shape[3] :
            /\ 5 * W <= image.shape[3] /\ image.shape[3] < 5 * W + 5
            /\ \A ch \in Chans(image), row \in Rows(image), x \in Cols(image) :
                 At(r.val.image, ch, row, x) =
                   IF \E j \in 0..4 : j * W <= x /\ x < (j + 1) * W /\ Triggers(j)
                   THEN 0
                   ELSE At(image, ch, row, x)
       /\ (\A j \in 0..4 : arg.dropout_images_prob[j + 1] = 0) =>
            SamePixels(r.val.image, image)

\* Slot 1 triggered and slot 2, with the same probability, did not: a
\* nonzero pixel of slot 1 is now zero and slot 2 is as it was.
C8_Witness ==
  /\ Done("RemoveImage")
  /\ out[1].res.err = "none"
  /\ arg.image.shape = <<3, 2, 11>>
  /\ arg.dropout_images_prob[2] = arg.dropout_images_prob[3]
  /\ Triggers(1) /\ ~Triggers(2)
  /\ At(arg.image, 0, 0, 2) # 0 /\ At(out[1].res.val.image, 0, 0, 2) = 0
  /\ At(out[1].res.val.image, 0, 0, 4) = At(arg.image, 0, 0, 4)
  /\ At(arg.image, 0, 0, 4) # 0

\* The read of the current img_name fails.
DecodeFails == pc = "read" /\ disk[img_name] # "ok"

\* C1: a failure to decode the image never leaves get_sample: the step
\* taken on a decode failure stays in the retry loop with a substitute file
\* of the split's list (index within 0..len-1); it never raises.
C1_DecodeFailureNeverRaised ==
  [][DecodeFails =>
       /\ pc' = "read"
       /\ \E i \in 0..(Len(ds[1].dataset_files) - 1) :
            img_name' = ds[1].dataset_files[i + 1]]_vars

\* The part of C1 the except clause delivers: a ValueError or a
\* FileNotFoundError is followed by a retry with a file of the list.
CaughtFailureRetried ==
  [][DecodeFails /\ disk[img_name] \in {"ValueError", "FileNotFoundError"} =>
       /\ pc' = "read" /\ warned'
       /\ \E i \in 0..(Len(ds[1].dataset_files) - 1) :
            img_name' = ds[1].dataset_files[i + 1]]_vars

SomeDecodable == \E f \in DOMAIN disk : disk[f] = "ok"

\* C2: there is no retry limit: with a decodable file in the list, a
\* get_sample that is reading eventually has its image; with no decodable
\* file, get_sample neither returns nor fails.
C2_NoRetryLimit ==
  /\ (pc = "read" /\ SomeDecodable) ~> (sample # <<>>)
  /\ [](~SomeDecodable => pc \in {"new", "failed", "idle", "read"})

\* The part of C2 the retry loop delivers: when every failure in the list
\* is one the except clause catches, a decodable file is reached.
CaughtFailuresRetryToSuccess ==
  (/\ pc = "read" /\ SomeDecodable
   /\ \A f \in DOMAIN disk : disk[f] # "RuntimeError") ~> (sample # <<>>)

\* The arguments the claim calls invalid.
InvalidArgs(a) ==
  \/ a.control_mode \notin {"keyboard", "controller", "Keyboard", "CONTROLLER"}
  \/ a.hide_map_prob < 0 \/ a.hide_map_prob > Den
  \/ /\ a.dropout_images_prob # <<>>
     /\ \/ Len(a.dropout_images_prob[1]) # 5
        \/ \E i \in 1..Len(a.dropout_images_prob[1]) :
             a.dropout_images_prob[1][i] < 0 \/ a.dropout_images_prob[1][i] >= Den
  \/ a.token_mask_prob < 0 \/ a.token_mask_prob >= Den

\* C3: construction fails for every invalid configuration (unsupported
\* control mode, hide_map_prob outside [0,1], a dropout vector of a length
\* other than 5, the empty vector included, a dropout entry outside [0,1),
\* token_mask_prob outside [0,1)), and no dataset exists afterwards.
C3_InvalidConfigFails ==
  (args # <<>> /\ InvalidArgs(args[1])) => (pc = "failed" /\ ds = <<>>)

\* The part of C3 the assertions deliver: every invalid configuration but
\* the empty dropout vector fails, and nothing is clamped in a dataset that
\* was constructed.
InvalidConfigFailsButEmptyVector ==
  /\ (args # <<>> /\ InvalidArgs(args[1]) /\ args[1].dropout_images_prob # << <<>> >>)
       => (pc = "failed" /\ ds = <<>>)
  /\ ds # <<>> =>
       /\ ds[1].hide_map_prob = args[1].hide_map_prob
       /\ ds[1].token_mask_prob = args[1].token_mask_prob

ExpectedStages(train) ==
  IF train
  THEN <<"RemoveMinimap", "RemoveImage", "SplitImages", "SequenceColorJitter",
         "Normalize", "get_mask">>
  ELSE <<"SplitImages", "Normalize", "get_mask">>

IsPrefix(a, b) == Len(a) <= Len(b) /\ a = SubSeq(b, 1, Len(a))

\* C4: the stages of a get_sample call run in the order fixed by the train
\* flag alone: Minimap Remover, Frame Dropper, Frame Splitter, Color
\* Jitter, Normalizer for train, Frame Splitter, Normalizer otherwise; what
\* has run is always a prefix of that order, and a call that returns has
\* run all of it, the Normalizer once and last, then get_mask.
C4_StageOrder ==
  ds # <<>> =>
    /\ IsPrefix(ran, ExpectedStages(ds[1].train))
    /\ pc = "returned" => ran = ExpectedStages(ds[1].train)

\* A training call returned after all five stages and get_mask.
C4_Witness ==
  /\ pc = "returned"
  /\ ds[1].train
  /\ Len(ran) = 6
  /\ ran[5] = "Normalize"

\* C9: the Frame Stack of every returned sample has exactly the configured
\* sequence_length frames, the length the mask was generated for.
C9_StackLength ==
  pc = "returned" =>
    /\ Len(ret[1][1].frames) = ds[1].sequence_length
    /\ ret[1][2].shape = <<ds[1].sequence_length>>

\* C10: the label of a returned sample is the Label Codec's decoding of the
\* name of the file the frames were decoded from, whatever substitutions
\* took place.
C10_LabelFromDecodedFile ==
  pc = "returned" =>
    \A k \in 1..Len(ret[1][1].frames) :
      ret[1][3].data =
        imagename_input_conversion(ret[1][1].frames[k].file, ds[1].control_mode).data

\* A sample was returned after a substitution, from another file than the
\* one the index names.
C10_Witness ==
  /\ pc = "returned"
  /\ warned
  /\ ret[1][1].frames[1].file # ds[1].dataset_files[idx + 1]
  /\ ret[1][3].data # imagename_input_conversion(ds[1].dataset_files[idx + 1],
                                                 ds[1].control_mode).data

\* ----------------------------------------------------------------- C11
\* The builder was constructed for training with dropout_images_prob left
\* at its default (None).
DefaultDropoutTraining ==
  /\ ds # <<>>
  /\ args[1].train
  /\ args[1].dropout_images_prob = <<>>

\* The RemoveImage stage of the current call has just run.
RemoveImageRan == ran # <<>> /\ ran[Len(ran)] = "RemoveImage"

\* The rows RemoveMinimap overwrites start at MinimapTop; RemoveImage
\* overwrites whole columns, from row 0.
DroppedColumns(image) == {z \in image.zero : z[1] = 0}

\* C11: a builder constructed with train = True and dropout_images_prob
\* omitted behaves as if the all-zero length-5 vector had been given: its
\* RemoveImage stage uses the defaulted vector that construction validated,
\* so the stage does not raise and zeroes no frame.
C11_DefaultDropoutServes ==
  DefaultDropoutTraining /\ RemoveImageRan =>
    /\ pc # "raised"
    /\ DroppedColumns(sample[1].image) = {}

====
